---- MODULE Spec2Model ----
(***************************************************************************)
(* A model of youtube.py: the window (YouTubeDownloader) that parses the   *)
(* URL text and starts a DownloadThread, the worker's run() loop over the  *)
(* task list, the signals it posts to the UI thread, and the log file.     *)
(*                                                                         *)
(* Strings are sequences of one-character strings, so that splitlines,     *)
(* strip and split are computed as Python computes them.  The external     *)
(* calls (os.makedirs, YoutubeDL.extract_info and its progress hook,       *)
(* subprocess.Popen, the transcoder's output and exit status) are inputs:  *)
(* each returns or raises, chosen nondeterministically.  The timestamp     *)
(* that log() puts before each message is left out of the log lines; each  *)
(* line carries instead the worker that wrote it (field "by").             *)
(***************************************************************************)
EXTENDS Integers, Sequences, FiniteSets, TLC

VARIABLES
    urls_text,        \* the text of the URL box when the button was last clicked
    threads,          \* the DownloadThread objects created so far, in order
    queue,            \* signals posted to the UI thread, not yet handled
    files,            \* the log files created by create_logger: their lines
    log_file,         \* YouTubeDownloader.log_file: the file __init__ opened
    thread,           \* YouTubeDownloader.thread: index into threads, 0 = unset
    progress_bar,     \* the value last given to QProgressBar.setValue (0 at first)
    dialog_visible,   \* whether a modal progress dialog is on screen
    boxes,            \* the message boxes on screen ("error" / "done")
    received          \* per thread: what download_finished received for it

vars == <<urls_text, threads, queue, files, log_file, thread, progress_bar,
          dialog_visible, boxes, received>>

----------------------------------------------------------------------------
(* Bounds of the model *)

\* DownloadThread objects one window creates
MaxRuns == 2
\* lines of the URL text in RunSpec
MaxItems == 2
\* 'downloading' reports of the progress hook in one run
MaxReports == 1
\* transcoder output lines holding "time=" in one run
MaxTimeLines == 1
\* length of the URL text typed into the window (ParseSpec)
MaxText == 4

\* a key missing from a progress report
Absent == -1
\* Python's None where a string is expected
None == <<"None">>
\* no path (mp3_file = None)
NoFile == [dir |-> None, name |-> None, ext |-> "none"]
NL == "\n"

\* the characters of the input text
Chars == {"u", ",", " ", NL}

----------------------------------------------------------------------------
(* Python's string functions on sequences of characters *)

IsSpace(c) == c \in {" ", NL}

RECURSIVE LStrip(_)
LStrip(s) ==
    IF s # <<>> /\ IsSpace(Head(s)) THEN LStrip(Tail(s)) ELSE s

RECURSIVE RStrip(_)
RStrip(s) ==
    IF s # <<>> /\ IsSpace(s[Len(s)]) THEN RStrip(SubSeq(s, 1, Len(s) - 1)) ELSE s

\* str.strip()
Strip(s) == RStrip(LStrip(s))

\* the first position of character c in s, 0 when there is none
IndexOf(s, c) ==
    IF \E i \in 1..Len(s) : s[i] = c
    THEN CHOOSE i \in 1..Len(s) : s[i] = c /\ \A j \in 1..(i - 1) : s[j] # c
    ELSE 0

\* str.splitlines(): no line for an empty text, none after a final newline
RECURSIVE SplitLines(_)
SplitLines(s) ==
    IF s = <<>> THEN <<>>
    ELSE LET k == IndexOf(s, NL)
         IN  IF k = 0 THEN <<s>>
             ELSE <<SubSeq(s, 1, k - 1)>> \o SplitLines(SubSeq(s, k + 1, Len(s)))

\* line.split(",", maxsplit=1)
SplitComma(line) ==
    LET k == IndexOf(line, ",")
    IN  IF k = 0 THEN <<line>>
        ELSE <<SubSeq(line, 1, k - 1), SubSeq(line, k + 1, Len(line))>>

\* Python truth of a string or None
Truthy(s) == s # None /\ s # <<>>

\* x or y
Or(x, y) == IF Truthy(x) THEN x ELSE y

----------------------------------------------------------------------------
(* start_download: the task list of the input text *)

\* one (url, filename) task of a non-blank line
ParseLine(line) ==
    LET parts == SplitComma(line)
    IN  [url |-> Strip(parts[1]),
         filename |-> IF Len(parts) > 1 THEN Strip(parts[2]) ELSE None]

RECURSIVE ParseTasks(_)
ParseTasks(lines) ==
    IF lines = <<>> THEN <<>>
    ELSE IF Strip(Head(lines)) = <<>> THEN ParseTasks(Tail(lines))
         ELSE <<ParseLine(Head(lines))>> \o ParseTasks(Tail(lines))

\* n lines "u", a newline between them
RECURSIVE UrlLines(_)
UrlLines(n) == IF n = 1 THEN <<"u">> ELSE UrlLines(n - 1) \o <<NL, "u">>

\* the URL texts of RunSpec: no text, a blank text, a line with an output
\* name, and up to MaxItems lines
SampleTexts ==
    { <<>>, <<" ">>, <<"u", ",", "u">> } \cup { UrlLines(n) : n \in 1..MaxItems }

\* every text over Chars of at most n characters
RECURSIVE TextsUpTo(_)
TextsUpTo(n) ==
    IF n = 0 THEN {<<>>}
    ELSE LET shorter == TextsUpTo(n - 1)
         IN  shorter \cup {Append(t, c) : t \in {x \in shorter : Len(x) = n - 1}, c \in Chars}

\* the folder texts: empty (the default folder is used) or a folder name
FolderTexts == {<<>>, <<"d">>}

----------------------------------------------------------------------------
(* DownloadThread.run: the pure parts *)

Max(a, b) == IF a >= b THEN a ELSE b

\* 'downloading' reports of the external downloader (downloaded_bytes and
\* total_bytes, each of which may be missing from the dictionary): half way,
\* a total smaller than what was downloaded, and no total
Reports ==
    { [downloaded_bytes |-> 1, total_bytes |-> 2],
      [downloaded_bytes |-> 2, total_bytes |-> 1],
      [downloaded_bytes |-> 2, total_bytes |-> Absent] }

Get(d, key, default) == IF d[key] = Absent THEN default ELSE d[key]

\* int(d.get('downloaded_bytes', 0) / max(d.get('total_bytes', 1), 1) * 100)
Percent(d) ==
    (Get(d, "downloaded_bytes", 0) * 100) \div Max(Get(d, "total_bytes", 1), 1)

\* filename or info.get('title', 'output')
Title(filename, info_title) ==
    Or(filename, IF info_title = None THEN <<"output">> ELSE info_title)

\* os.path.join(self.output_dir, f"{title}.mp4")
Mp4File(output_dir, title) == [dir |-> output_dir, name |-> title, ext |-> "mp4"]

\* os.path.join(self.output_dir, f"{title}.mp3")
Mp3File(output_dir, title) == [dir |-> output_dir, name |-> title, ext |-> "mp3"]

\* f"{mp4_file}" + (f"\n{mp3_file}" if mp3_file else ""): the paths, one a line
SuccessResult(mp4_file, mp3_file) ==
    [kind |-> "paths",
     lines |-> IF mp3_file # NoFile THEN <<mp4_file, mp3_file>> ELSE <<mp4_file>>]

\* the messages an exception can carry: any text, or one holding the phrase
\* "The following content is not available on this app"
AppOnly == "not available on this app"
Errors == {"error", AppOnly}

\* err_msg: str(e), with the hint appended for app-only content
ErrMsg(e) == IF e = AppOnly THEN <<e, "hint">> ELSE <<e>>

\* f"URL: {url} ... {err_msg}"
ErrorResult(url, err_msg) == [kind |-> "error", url |-> url, err_msg |-> err_msg]

\* filename or 'video'
Shown(filename) == Or(filename, <<"video">>)

----------------------------------------------------------------------------
(* The state after YouTubeDownloader.__init__ *)

FileIds == 1..(MaxRuns + 1)

Init ==
    /\ urls_text = <<>>
    /\ threads = <<>>
    /\ queue = <<>>
    /\ files = [f \in FileIds |-> <<>>]
    /\ log_file = 1
    /\ thread = 0
    /\ progress_bar = 0
    /\ dialog_visible = FALSE
    /\ boxes = <<>>
    /\ received = [r \in 1..MaxRuns |-> [called |-> 0, results |-> <<>>]]

\* a log file of its own for the DownloadThread being created
FreshLogFile == Len(threads) + 2

\* the log file start_download hands to the DownloadThread it creates
ThreadLogFile == log_file

\* DownloadThread.__init__, with the bookkeeping the properties read:
\* outcome (what happened to each item), transcoded (the items whose
\* transcoder was started), emitted (finished_signal emissions), late
\* (a progress_update emitted after finished_signal)
NewThread(tasks, output_dir, to_mp3) ==
    [tasks |-> tasks, output_dir |-> output_dir, to_mp3 |-> to_mp3,
     log_file |-> ThreadLogFile,
     pc |-> "start", idx |-> 1, results |-> <<>>,
     title |-> None, mp4_file |-> NoFile, reports |-> 0, time_lines |-> 0,
     outcome |-> <<>>, transcoded |-> {}, emitted |-> 0, late |-> FALSE]

Running(t) == t.pc \notin {"done", "raised"}

----------------------------------------------------------------------------
(* The UI thread *)

\* start_download, on the text of the URL box, of the folder box and the
\* MP3 check box.  A modal dialog or message box on screen keeps the click
\* from the window.
StartDownload(text, folder, mp3) ==
    LET output_dir == Or(Strip(folder), <<"downloads">>)
        lines == SplitLines(text)
        tasks == ParseTasks(lines)
    IN  /\ ~dialog_visible
        /\ boxes = <<>>
        /\ urls_text' = text
        /\ IF lines = <<>>
           THEN /\ boxes' = Append(boxes, "error")
                /\ UNCHANGED <<threads, queue, files, log_file, thread,
                               progress_bar, dialog_visible, received>>
           ELSE /\ Len(threads) < MaxRuns
                /\ progress_bar' = 0
                /\ threads' = Append(threads, NewThread(tasks, output_dir, mp3))
                /\ thread' = Len(threads) + 1
                /\ dialog_visible' = TRUE
                /\ UNCHANGED <<queue, files, log_file, boxes, received>>

\* the user closes the progress dialog (Esc or its close button): it is a
\* plain QDialog, shown with show()
CloseDialog ==
    /\ dialog_visible
    /\ boxes = <<>>
    /\ dialog_visible' = FALSE
    /\ UNCHANGED <<urls_text, threads, queue, files, log_file, thread, progress_bar,
                   boxes, received>>

\* the user dismisses the topmost message box
DismissBox ==
    /\ boxes # <<>>
    /\ boxes' = SubSeq(boxes, 1, Len(boxes) - 1)
    /\ UNCHANGED <<urls_text, threads, queue, files, log_file, thread, progress_bar,
                   dialog_visible, received>>

Marker == <<"=== done ===">>

\* update_progress(percent, message)
UpdateProgress(s) ==
    /\ progress_bar' = s.percent
    /\ UNCHANGED <<files, dialog_visible, boxes, received>>

\* download_finished(results)
DownloadFinished(s) ==
    /\ dialog_visible' = FALSE
    /\ files' = [files EXCEPT ![log_file] = Append(@, [by |-> s.run, msg |-> Marker])]
    /\ boxes' = Append(boxes, "done")
    /\ received' = [received EXCEPT ![s.run] = [called |-> @.called + 1, results |-> s.results]]
    /\ UNCHANGED progress_bar

\* the UI thread's event loop takes the next queued signal to its slot
Deliver ==
    /\ queue # <<>>
    /\ queue' = Tail(queue)
    /\ IF Head(queue).sig = "progress_update"
       THEN UpdateProgress(Head(queue))
       ELSE DownloadFinished(Head(queue))
    /\ UNCHANGED <<urls_text, threads, log_file, thread>>

----------------------------------------------------------------------------
(* The worker thread: DownloadThread.run of threads[r] *)

Progress(r, percent, message) ==
    [sig |-> "progress_update", run |-> r, percent |-> percent, message |-> message]

Finished(r, results) ==
    [sig |-> "finished_signal", run |-> r, results |-> results]

\* the thread after self.progress_update.emit
Emitting(t) == [t EXCEPT !.late = @ \/ t.emitted > 0]

\* self.progress_update.emit(percent, msg); self.log(msg)
EmitAndLog(r, percent, msg) ==
    /\ queue' = Append(queue, Progress(r, percent, msg))
    /\ files' = [files EXCEPT ![threads[r].log_file] = Append(@, [by |-> r, msg |-> msg])]

\* the item of the current iteration
Task(t) == t.tasks[t.idx]

\* the end of an iteration of the for loop that appended result
NextItem(t, result, what) ==
    [t EXCEPT !.results = Append(@, result),
              !.outcome = Append(@, what),
              !.idx = @ + 1,
              !.pc = "loop"]

\* an except block that records no result for the item
ExceptDropsResult(t, e, what) ==
    [t EXCEPT !.outcome = Append(@, what), !.idx = @ + 1, !.pc = "loop"]

\* an except block that leaves the for loop
ExceptBreaks(t, e, what) ==
    [t EXCEPT !.results = Append(@, ErrorResult(Task(t).url, ErrMsg(e))),
              !.outcome = Append(@, what),
              !.idx = Len(t.tasks) + 1,
              !.pc = "loop"]

\* the except block: the error text becomes the item's result
Except(t, e, what) == NextItem(t, ErrorResult(Task(t).url, ErrMsg(e)), what)

\* self.log(f"ERROR: URL {url} - {err_msg}")
ErrorLine(t, e) == <<"ERROR", Task(t).url, ErrMsg(e)>>

\* a transcoder started whatever the check box says
AlwaysMp3(t) == TRUE

\* if self.to_mp3
WantsMp3(t) == t.to_mp3

\* os.makedirs(self.output_dir, exist_ok=True), outside any try: when it
\* raises, run() ends there
Makedirs(r) ==
    /\ threads[r].pc = "start"
    /\ \/ threads' = [threads EXCEPT ![r].pc = "loop"]
       \/ threads' = [threads EXCEPT ![r].pc = "raised"]
    /\ UNCHANGED <<urls_text, queue, files, log_file, thread, progress_bar,
                   dialog_visible, boxes, received>>

\* the for statement takes the next task and calls extract_info
ForNext(r) ==
    LET t == threads[r]
    IN  /\ t.pc = "loop"
        /\ t.idx <= Len(t.tasks)
        /\ threads' = [threads EXCEPT ![r] =
               [t EXCEPT !.pc = "download", !.title = None, !.mp4_file = NoFile]]
        /\ UNCHANGED <<urls_text, queue, files, log_file, thread, progress_bar,
                       dialog_visible, boxes, received>>

\* the for statement is exhausted: self.finished_signal.emit(results)
EmitFinished(r) ==
    LET t == threads[r]
    IN  /\ t.pc = "loop"
        /\ t.idx > Len(t.tasks)
        /\ queue' = Append(queue, Finished(r, t.results))
        /\ threads' = [threads EXCEPT ![r] = [t EXCEPT !.pc = "done", !.emitted = @ + 1]]
        /\ UNCHANGED <<urls_text, files, log_file, thread, progress_bar,
                       dialog_visible, boxes, received>>

\* progress_hook(d) with d['status'] == 'downloading'
HookDownloading(r, d) ==
    LET t == threads[r]
    IN  /\ t.pc = "download"
        /\ t.reports < MaxReports
        /\ EmitAndLog(r, Percent(d),
                      <<"Downloading", Shown(Task(t).filename), t.idx, Len(t.tasks)>>)
        /\ threads' = [threads EXCEPT ![r] = [Emitting(t) EXCEPT !.reports = @ + 1]]
        /\ UNCHANGED <<urls_text, log_file, thread, progress_bar, dialog_visible, boxes, received>>

\* progress_hook(d) with d['status'] == 'finished'
HookFinished(r) ==
    LET t == threads[r]
    IN  /\ t.pc = "download"
        /\ EmitAndLog(r, 100,
                      <<"Download finished", Shown(Task(t).filename), t.idx, Len(t.tasks)>>)
        /\ threads' = [threads EXCEPT ![r] = [Emitting(t) EXCEPT !.pc = "downloaded"]]
        /\ UNCHANGED <<urls_text, log_file, thread, progress_bar, dialog_visible, boxes, received>>

\* extract_info returns info: title and mp4_file are set; without to_mp3 the
\* result is appended
ExtractInfoReturns(r, info_title) ==
    LET t == threads[r]
        title == Title(Task(t).filename, info_title)
        mp4_file == Mp4File(t.output_dir, title)
        u == [t EXCEPT !.title = title, !.mp4_file = mp4_file]
    IN  /\ t.pc = "downloaded"
        /\ threads' = [threads EXCEPT ![r] =
               IF WantsMp3(t) THEN [u EXCEPT !.pc = "popen"]
               ELSE NextItem(u, SuccessResult(mp4_file, NoFile), "downloaded")]
        /\ UNCHANGED <<urls_text, queue, files, log_file, thread, progress_bar,
                       dialog_visible, boxes, received>>

\* extract_info (or the progress hook inside it) raises
ExtractInfoRaises(r, e) ==
    LET t == threads[r]
    IN  /\ t.pc \in {"download", "downloaded"}
        /\ threads' = [threads EXCEPT ![r] = Except(t, e, "download raised")]
        /\ files' = [files EXCEPT ![t.log_file] = Append(@, [by |-> r, msg |-> ErrorLine(t, e)])]
        /\ UNCHANGED <<urls_text, queue, log_file, thread, progress_bar,
                       dialog_visible, boxes, received>>

\* subprocess.Popen(cmd, ...) starts the transcoder
PopenStarts(r) ==
    LET t == threads[r]
    IN  /\ t.pc = "popen"
        /\ threads' = [threads EXCEPT ![r] =
               [t EXCEPT !.pc = "ffmpeg", !.transcoded = @ \cup {t.idx}]]
        /\ UNCHANGED <<urls_text, queue, files, log_file, thread, progress_bar,
                       dialog_visible, boxes, received>>

\* subprocess.Popen raises (no ffmpeg on the path)
PopenRaises(r, e) ==
    LET t == threads[r]
    IN  /\ t.pc = "popen"
        /\ threads' = [threads EXCEPT ![r] = Except(t, e, "popen raised")]
        /\ files' = [files EXCEPT ![t.log_file] = Append(@, [by |-> r, msg |-> ErrorLine(t, e)])]
        /\ UNCHANGED <<urls_text, queue, log_file, thread, progress_bar,
                       dialog_visible, boxes, received>>

\* a line of process.stdout with "time=" in it
StdoutTimeLine(r) ==
    LET t == threads[r]
    IN  /\ t.pc = "ffmpeg"
        /\ t.time_lines < MaxTimeLines
        /\ EmitAndLog(r, 50, <<"Converting", t.title, t.idx, Len(t.tasks)>>)
        /\ threads' = [threads EXCEPT ![r] = [Emitting(t) EXCEPT !.time_lines = @ + 1]]
        /\ UNCHANGED <<urls_text, log_file, thread, progress_bar, dialog_visible, boxes, received>>

\* process.stdout ends and process.wait() returns the exit status, which
\* run() does not read; the paths become the item's result
ProcessWait(r, status) ==
    LET t == threads[r]
        mp3_file == Mp3File(t.output_dir, t.title)
    IN  /\ t.pc = "ffmpeg"
        /\ EmitAndLog(r, 100, <<"Conversion finished", t.title>>)
        /\ threads' = [threads EXCEPT ![r] =
               NextItem(Emitting(t), SuccessResult(t.mp4_file, mp3_file),
                        IF status = 0 THEN "converted" ELSE "transcoder failed")]
        /\ UNCHANGED <<urls_text, log_file, thread, progress_bar, dialog_visible, boxes, received>>

\* the exit statuses of the transcoder
ExitStatuses == {0, 1}

\* info.get('title'): a title, or none
InfoTitles == {<<"t">>, None}

\* the DownloadThread objects created
Runs == 1..Len(threads)

----------------------------------------------------------------------------
(* Spec: the window over several downloads.  The user clicks, closes the   *)
(* progress dialog and dismisses message boxes; every worker started runs  *)
(* beside the UI thread.  The texts give no task or one, and the external  *)
(* downloader answers with one report, one title and one error.            *)

WindowTexts == { <<>>, <<" ">>, <<"u">> }
WindowReports == { [downloaded_bytes |-> 1, total_bytes |-> 2] }

Click ==
    \E text \in WindowTexts, mp3 \in BOOLEAN : StartDownload(text, <<>>, mp3)

\* one step of run() in one of the workers
WindowWorkers ==
    \/ \E r \in Runs : Makedirs(r)
    \/ \E r \in Runs : ForNext(r)
    \/ \E r \in Runs : EmitFinished(r)
    \/ \E r \in Runs, d \in WindowReports : HookDownloading(r, d)
    \/ \E r \in Runs : HookFinished(r)
    \/ \E r \in Runs : ExtractInfoReturns(r, <<"t">>)
    \/ \E r \in Runs : ExtractInfoRaises(r, "error")
    \/ \E r \in Runs : PopenStarts(r)
    \/ \E r \in Runs : PopenRaises(r, "error")
    \/ \E r \in Runs : StdoutTimeLine(r)
    \/ \E r \in Runs, status \in ExitStatuses : ProcessWait(r, status)

Next ==
    \/ Click
    \/ CloseDialog
    \/ DismissBox
    \/ Deliver
    \/ WindowWorkers

Spec == Init /\ [][Next]_vars

\* SeqSpec: the same window when the user leaves the progress dialog alone
SeqNext ==
    \/ Click
    \/ DismissBox
    \/ Deliver
    \/ WindowWorkers

SeqSpec == Init /\ [][SeqNext]_vars

----------------------------------------------------------------------------
(* RunSpec: one download in full.  One click on any of the sample texts,   *)
(* and the worker it starts with every answer of the external calls.       *)

FirstClick ==
    /\ threads = <<>>
    /\ \E text \in SampleTexts, mp3 \in BOOLEAN : StartDownload(text, <<>>, mp3)

\* one step of run() in the worker
RunWorker ==
    \/ \E r \in Runs : Makedirs(r)
    \/ \E r \in Runs : ForNext(r)
    \/ \E r \in Runs : EmitFinished(r)
    \/ \E r \in Runs, d \in Reports : HookDownloading(r, d)
    \/ \E r \in Runs : HookFinished(r)
    \/ \E r \in Runs, info_title \in InfoTitles : ExtractInfoReturns(r, info_title)
    \/ \E r \in Runs, e \in Errors : ExtractInfoRaises(r, e)
    \/ \E r \in Runs : PopenStarts(r)
    \/ \E r \in Runs : PopenRaises(r, "error")
    \/ \E r \in Runs : StdoutTimeLine(r)
    \/ \E r \in Runs, status \in ExitStatuses : ProcessWait(r, status)

RunNext ==
    \/ FirstClick
    \/ DismissBox
    \/ Deliver
    \/ RunWorker

RunSpec == Init /\ [][RunNext]_vars

\* the one worker is scheduled until run() ends, and the UI thread's event
\* loop handles every queued signal
RunFair == WF_vars(RunWorker) /\ WF_vars(Deliver)

FairRunSpec == RunSpec /\ RunFair

----------------------------------------------------------------------------
(* ParseSpec: start_download on every text of at most MaxText characters   *)

AnyClick ==
    \E text \in TextsUpTo(MaxText), folder \in FolderTexts, mp3 \in BOOLEAN :
        StartDownload(text, folder, mp3)

ParseNext ==
    \/ AnyClick
    \/ DismissBox

ParseSpec == Init /\ [][ParseNext]_vars

----------------------------------------------------------------------------
(* Properties *)

\* run() of t has left its for loop
LoopOver(t) == t.pc = "done" \/ (t.pc = "loop" /\ t.idx > Len(t.tasks))

Failures == {"download raised", "popen raised"}

\* result is an entry for task: the error text of its URL, or paths in the
\* output folder named after its output name (after the title the downloader
\* gave, when the task has no output name)
BelongsTo(result, task, t) ==
    IF result.kind = "error" THEN result.url = task.url
    ELSE /\ result.lines[1].dir = t.output_dir
         /\ result.lines[1].name \in {Title(task.filename, x) : x \in InfoTitles}

\* the lines of file f written by worker r, the completion markers left out
ItemLines(f, r) ==
    {k \in 1..Len(files[f]) : files[f][k].by = r /\ files[f][k].msg # Marker}

\* the completion markers of file f written for worker r
Markers(f, r) ==
    {k \in 1..Len(files[f]) : files[f][k].by = r /\ files[f][k].msg = Marker}

\* C1: when run() has left its loop over N tasks, results has exactly N
\* entries and the i-th belongs to the i-th task, whatever succeeded or failed
C1_OneResultPerTask ==
    \A r \in Runs :
        LET t == threads[r]
        IN  /\ Len(t.results) = t.idx - 1
            /\ LoopOver(t) =>
                 /\ Len(t.results) = Len(t.tasks)
                 /\ \A i \in 1..Len(t.tasks) : BelongsTo(t.results[i], t.tasks[i], t)

\* a finished run over two or more tasks of which one failed and one succeeded
C1_Witness ==
    \E r \in Runs :
        LET t == threads[r]
        IN  /\ t.pc = "done"
            /\ Len(t.tasks) >= 2
            /\ \E i, j \in 1..Len(t.results) :
                   t.results[i].kind = "error" /\ t.results[j].kind = "paths"

\* C2: finished_signal is emitted exactly once in each run, only after every
\* task has its result, carrying the complete results list, and no
\* progress_update of the run is emitted after it
C2_FinishedOnceAtEnd ==
    \A r \in Runs :
        LET t == threads[r]
        IN  /\ ~Running(t) => t.emitted = 1
            /\ t.emitted <= 1
            /\ t.emitted = 1 => Len(t.results) = Len(t.tasks)
            /\ ~t.late
            /\ \A k \in 1..Len(queue) :
                   (queue[k].sig = "finished_signal" /\ queue[k].run = r)
                       => queue[k].results = t.results
            /\ received[r].called = 1 => received[r].results = t.results

\* the result the code gives to an item with this outcome
ResultFits(result, what) ==
    CASE what = "downloaded" -> result.kind = "paths" /\ Len(result.lines) = 1
      [] what \in {"converted", "transcoder failed"} ->
             result.kind = "paths" /\ Len(result.lines) = 2
      [] OTHER -> result.kind = "error"

\* the ERROR lines worker r wrote to its log file
ErrorLines(r) ==
    {k \in ItemLines(threads[r].log_file, r) :
        files[threads[r].log_file][k].msg[1] = "ERROR"}

\* C3: an exception in item i is confined to it: the item's result is the
\* error text naming its URL, one ERROR line with that text is logged, run()
\* goes on, and every later item gets the result of its own outcome
C3_FailureConfined ==
    \A r \in Runs :
        LET t == threads[r]
            log == files[t.log_file]
        IN  /\ \A i \in 1..Len(t.outcome) :
                 t.outcome[i] \in Failures =>
                    /\ t.results[i].kind = "error"
                    /\ t.results[i].url = t.tasks[i].url
                    /\ \E k \in ErrorLines(r) :
                           log[k].msg = <<"ERROR", t.tasks[i].url, t.results[i].err_msg>>
                    /\ t.pc # "raised"
                    /\ LoopOver(t) =>
                          \A j \in (i + 1)..Len(t.tasks) :
                              /\ j <= Len(t.outcome)
                              /\ ResultFits(t.results[j], t.outcome[j])
            /\ Cardinality(ErrorLines(r))
                 = Cardinality({i \in 1..Len(t.outcome) : t.outcome[i] \in Failures})

\* a finished run whose first item raised and whose second was converted
C3_Witness ==
    \E r \in Runs :
        LET t == threads[r]
        IN  /\ t.pc = "done"
            /\ Len(t.outcome) >= 2
            /\ t.outcome[1] \in Failures
            /\ t.outcome[2] = "converted"

\* C4: an item's result lists the paths only when its download and, with
\* to_mp3, its transcoder succeeded; it is the error text when the download
\* or the transcoder failed, a failure exit status included
C4_PathsOnlyOnSuccess ==
    \A r \in Runs :
        LET t == threads[r]
        IN  \A i \in 1..Len(t.outcome) :
                /\ t.results[i].kind = "paths"
                      => t.outcome[i] \in {"downloaded", "converted"}
                /\ t.outcome[i] \in Failures \cup {"transcoder failed"}
                      => t.results[i].kind = "error"

\* C5: every progress_update carries a percentage in 0..100
C5_PercentInRange ==
    /\ \A k \in 1..Len(queue) :
           queue[k].sig = "progress_update" => queue[k].percent \in 0..100
    /\ progress_bar \in 0..100

C7_OneWorker ==
    /\ \A r \in Runs :
          LET t == threads[r]
          IN  /\ Len(t.results) = t.idx - 1
              /\ Running(t) /\ t.pc \notin {"start", "loop"} => t.idx <= Len(t.tasks)
    /\ Cardinality({r \in Runs : Running(threads[r])}) <= 1

\* C8: the transcoder of an item is started only with to_mp3 and only after
\* the item's download returned; without to_mp3 no transcoder starts and a
\* success result is the video path alone, with to_mp3 it is the video path
\* followed by the audio path
C8_TranscoderAfterDownload ==
    \A r \in Runs :
        LET t == threads[r]
        IN  /\ \A i \in t.transcoded :
                 /\ t.to_mp3
                 /\ i < t.idx => t.outcome[i] \in {"converted", "transcoder failed"}
                 /\ i = t.idx => t.pc = "ffmpeg" /\ t.mp4_file # NoFile
            /\ ~t.to_mp3 => t.transcoded = {}
            /\ \A i \in 1..Len(t.results) :
                 t.results[i].kind = "paths" =>
                    LET lines == t.results[i].lines
                    IN  /\ lines[1].ext = "mp4"
                        /\ IF t.to_mp3
                           THEN /\ i \in t.transcoded
                                /\ Len(lines) = 2
                                /\ lines[2] = [lines[1] EXCEPT !.ext = "mp3"]
                           ELSE Len(lines) = 1

\* a run with to_mp3 whose transcoder ran for an item, the result being the
\* two paths
C8_Witness ==
    \E r \in Runs :
        LET t == threads[r]
        IN  /\ t.to_mp3
            /\ \E i \in t.transcoded :
                   i <= Len(t.results) /\ Len(t.results[i].lines) = 2

\* C9: every run that start_download starts is followed by download_finished
\* for it, which closes the progress dialog
C9_FinishedDelivered ==
    \A r \in 1..MaxRuns :
        (r <= Len(threads))
            ~> (r <= Len(threads) /\ received[r].called = 1 /\ ~dialog_visible)

\* the non-blank lines of a text
NonBlank(lines) == SelectSeq(lines, LAMBDA line : Strip(line) # <<>>)

\* C10: a click starts a worker only for a text holding a non-blank line; a
\* text without one gets the error box, no worker and no dialog; any other
\* text gets one task per non-blank line, in line order
C10_WorkerOnlyWithUrl ==
    [][LET lines == NonBlank(SplitLines(urls_text'))
       IN  /\ threads' # threads =>
                 /\ lines # <<>>
                 /\ Len(threads'[Len(threads')].tasks) = Len(lines)
                 /\ \A i \in 1..Len(lines) :
                        threads'[Len(threads')].tasks[i] = ParseLine(lines[i])
           /\ (urls_text' # urls_text /\ lines = <<>>) =>
                 /\ threads' = threads
                 /\ ~dialog_visible'
                 /\ boxes' = <<"error">>
      ]_vars

====
